---- MODULE Spec2Model ----
(***************************************************************************)
(* Verification model of the MosPay transaction routing and risk control   *)
(* engine: the payment dispatcher (payment_processor.py), the rate limiter *)
(* (security_monitor.py) and the alert engine (alert_monitor.py).          *)
(*                                                                         *)
(* The specifications share the variables; each holds the variables of    *)
(* the other subsystems constant:                                          *)
(*   SpecPay    the dispatcher, one request handled at a time              *)
(*   SpecRate   the rate limiter                                           *)
(*   SpecAlert  the alert engine                                           *)
(*   SpecBlacklist  the IP blacklist                                       *)
(*   SpecFraud  the fraud scorer                                           *)
(*   SpecResolve  concurrent rule resolution                               *)
(*   SpecRateConc  concurrent rate limiting                                *)
(*   SpecAlertConc  concurrent alert evaluation                            *)
(*   SpecRateFault  the rate limiter with failing storage                  *)
(*   SpecSeverity  the severity of a created Alert                         *)
(*   SpecKeys  routing keys and rule names                                 *)
(***************************************************************************)
EXTENDS Integers, Sequences, FiniteSets, TLC

VARIABLES
    ledger,     \* transactions table: committed status of each Transaction
    rules,      \* database-resident routing functions: name -> definition
    proc,       \* per request or caller: position and locals of its handler
    now,        \* wall clock: half-hours in SpecRate, hours in SpecAlert
    rl,         \* rate_limits table: one row slot per (identifier, endpoint)
    rlg,        \* rate limiter observations: last call and per-window tally
    alerts,     \* alerts table, in insertion order
    ah,         \* alert engine observations: what the last evaluations owed
    bl,         \* ip_blacklist table: the entry of one IP address
    blg,        \* blacklist observations: the last check_ip_blacklist call
    fd          \* fraud_detections and security_events rows of the last analysis;
                \* in SpecPay the number of fraud_detections rows per Transaction

vars == <<ledger, rules, proc, now, rl, rlg, alerts, ah, bl, blg, fd>>

(***************************************************************************)
(* Bounds                                                                  *)
(***************************************************************************)
MaxReq == 2
Limit == 2          \* the limit argument of check_rate_limit (100 by default)
MaxPhase == 3       \* SpecRate: half-hour steps taken within one day
MaxDays == 1        \* SpecRate: whole days that pass
MaxEvals == 2       \* SpecAlert: runs of check_all_rules
MaxLifecycle == 2   \* SpecAlert: acknowledge_alert / resolve_alert calls
MaxTimeAlert == 2   \* SpecAlert: hours that pass
MaxTimeBl == 2      \* SpecBlacklist: hours that pass
MaxCallers == 2     \* SpecResolve: concurrent callers of call_pg_function
MaxBurst == 3       \* SpecRateConc: concurrent callers of check_rate_limit
MaxRunners == 3     \* SpecAlertConc: concurrent runs of check_rule
MaxOver == 1        \* SpecRateFault: calls made on a row at most this far over the limit
MaxLookups == 2     \* SpecKeys: routing keys resolved one after the other

Reqs == 1..MaxReq

(***************************************************************************)
(* Payment dispatcher                                                      *)
(***************************************************************************)

NoSuchId == 0       \* a unique id that names no Transaction

\* A string is modelled by the sequence of its "_"-separated pieces, so that
\* joining with "_" is concatenation and split("_") is the sequence itself.
AppId == <<"app1">>
Services == { <<"mpesa">> }
Routes == { <<"collection">>, <<"collectionStatus">> }

StatusPieces == {"collectionStatus", "collectionStatusStatus", "Status"}

EndsWithStatus(piece) == piece \in StatusPieces

\* f"{client.app_id}_{service.name}_{payload.get('f002', 'default')}"
FunctionName(app, svc, route) == app \o svc \o route

\* f"RESPONSE_{client.app_id}_{service.name}_{payload.get('f002', 'default')}"
ResponseFunctionName(app, svc, route) == <<"RESPONSE">> \o app \o svc \o route

NoResult == [kind |-> "none", status |-> "", action |-> "", message |-> "",
             command |-> "", txdata |-> "null"]

RaisedResult == [kind |-> "raised", status |-> "", action |-> "", message |-> "",
                 command |-> "", txdata |-> "null"]

Envelope(st, act, msg, cmd, tx) ==
    [kind |-> "envelope", status |-> st, action |-> act, message |-> msg,
     command |-> cmd, txdata |-> tx]

\* parts = function_name.split("_"); parts[0..2] or the "default" fallbacks
DefaultParts(name) ==
    IF Len(name) >= 3
    THEN [app |-> name[1], svc |-> name[2], route |-> name[3]]
    ELSE [app |-> name[1], svc |-> "default", route |-> "default"]

\* The function text create_default_function generates for a name.
DefaultFunction(name) ==
    LET p == DefaultParts(name) IN
    [kind  |-> IF EndsWithStatus(p.route) THEN "status" ELSE "service",
     app   |-> p.app, svc |-> p.svc, route |-> p.route]

\* function_name.replace("RESPONSE_", "").split("_"): every piece "RESPONSE"
\* that is followed by a "_" disappears.
RECURSIVE StripResponse(_)
StripResponse(name) ==
    IF Len(name) <= 1 THEN name
    ELSE IF Head(name) = "RESPONSE" THEN StripResponse(Tail(name))
    ELSE <<Head(name)>> \o StripResponse(Tail(name))

DefaultResponseFunction(name) ==
    LET p == DefaultParts(StripResponse(name)) IN
    [kind |-> "response", app |-> p.app, svc |-> p.svc, route |-> p.route]

\* What a phase-1 function returns when called with (unique_id, data_input).
\* The status function looks the Transaction up by unique_id in the ledger.
ExecFunction(def, txStatus) ==
    IF def.kind = "status"
    THEN IF txStatus = "none"
         THEN Envelope("404", "ERROR", "Transaction not found", def.route, "null")
         ELSE Envelope("200", "OUTPUT", "Transaction status retrieved", def.route, txStatus)
    ELSE IF def.kind = "service"
    THEN Envelope("200", "SERVICE", "Service call initiated", def.route, "null")
    ELSE Envelope("200", "OUTPUT", "Request processed successfully", def.route, "null")

\* The driver hands a json column to Python as a dict (call_pg_function returns
\* row.results unparsed for that reason); json.loads accepts only str/bytes.
RowResultsType == "dict"

JsonLoadsAccepts(type) == type \in {"str", "bytes"}

IdleProc ==
    [pc |-> "idle", verdict |-> "unset", f010 |-> NoSuchId, named |-> "none",
     svc |-> <<>>, route |-> <<>>, tx |-> "unset",
     res1 |-> NoResult, res2 |-> NoResult, ms |-> "none", msCalls |-> 0,
     ruleFault |-> FALSE, respRan |-> FALSE, respFault |-> FALSE,
     commitFault |-> FALSE, result |-> NoResult]

\* Requests are handled one at a time and numbered in the order they arrive:
\* request r arrives when the handlers of the earlier ones have returned.
CanStart(r) ==
    /\ proc[r].pc = "idle"
    /\ \A q \in Reqs : q < r => proc[q].pc = "returned"

\* The Transaction a unique id names in the ledger ("none": no such row).
LookupStatus(id) == IF id \in Reqs THEN ledger[id] ELSE "none"

\* The checks of both payment endpoints before any work (api_routes.py
\* lines 66-143 and 178-254), by the first check that fails.
Checks == {"missing_field", "token_type", "client", "app_id", "service",
           "access_denied", "ok"}

Validate(check) ==
    IF check = "ok" THEN "ok"
    ELSE IF check = "access_denied" THEN "403"
    ELSE "400"

\* Where process_payment goes with the verdict: only "ok" reaches line 145.
AfterValidationBroken(v) == "accepted"

AfterValidation(v) == IF v = "ok" THEN "accepted" ELSE "rejected"

\* -- process_payment, lines 66-143.  The caller cannot name the unique id of
\* the Transaction this request is about to create.
ProcessPayment(r) ==
    /\ CanStart(r)
    /\ \E check \in Checks, id \in (Reqs \ {r}) \cup {NoSuchId} :
         proc' = [proc EXCEPT ![r] =
            [@ EXCEPT !.verdict = Validate(check), !.f010 = id,
                      !.named = LookupStatus(id),
                      !.pc = AfterValidation(Validate(check))]]
    /\ UNCHANGED <<ledger, rules, now, rl, rlg, alerts, ah, bl, blg, fd>>

\* -- process_payment_request, lines 20-36: build the Transaction, add, commit
Begin(r) ==
    /\ proc[r].pc = "accepted"
    /\ \E svc \in Services, route \in Routes, ok \in BOOLEAN :
         /\ proc' = [proc EXCEPT ![r] =
                [@ EXCEPT !.svc = svc, !.route = route, !.tx = "pending",
                          !.pc = IF ok THEN "p1check" ELSE "except",
                          !.commitFault = ~ok]]
         /\ ledger' = IF ok THEN [ledger EXCEPT ![r] = "pending"] ELSE ledger
    /\ UNCHANGED <<rules, now, rl, rlg, alerts, ah, bl, blg, fd>>

Name1(r) == FunctionName(AppId, proc[r].svc, proc[r].route)
Name2(r) == ResponseFunctionName(AppId, proc[r].svc, proc[r].route)

\* Where the dispatcher goes with the phase-1 result (line 44).
AfterPhase1(res) ==
    IF res.kind = "envelope" /\ res.action = "SERVICE" THEN "ms" ELSE "final"

\* -- call_pg_function, lines 96-110: does the function exist?
P1Check(r) ==
    /\ proc[r].pc = "p1check"
    /\ \E ok \in BOOLEAN :
         proc' = [proc EXCEPT ![r] =
            IF ~ok
            THEN [@ EXCEPT !.res1 = NoResult, !.ruleFault = TRUE,
                           !.pc = AfterPhase1(NoResult)]
            ELSE [@ EXCEPT !.pc = IF Name1(r) \in DOMAIN rules
                                  THEN "p1call" ELSE "p1create"]]
    /\ UNCHANGED <<ledger, rules, now, rl, rlg, alerts, ah, bl, blg, fd>>

\* -- create_default_function: CREATE OR REPLACE, commit; on error rollback
P1Create(r) ==
    /\ proc[r].pc = "p1create"
    /\ \E ok \in BOOLEAN :
         rules' = IF ok
                  THEN [n \in DOMAIN rules \cup {Name1(r)} |->
                          IF n = Name1(r) THEN DefaultFunction(n) ELSE rules[n]]
                  ELSE rules
    /\ proc' = [proc EXCEPT ![r].pc = "p1call"]
    /\ UNCHANGED <<ledger, now, rl, rlg, alerts, ah, bl, blg, fd>>

\* -- call_pg_function, lines 112-135: call it; any exception gives None
P1Call(r) ==
    /\ proc[r].pc = "p1call"
    /\ \E ok \in BOOLEAN :
         LET res == IF ok /\ Name1(r) \in DOMAIN rules
                    THEN ExecFunction(rules[Name1(r)], ledger[r])
                    ELSE NoResult
         IN proc' = [proc EXCEPT ![r] =
                [@ EXCEPT !.res1 = res, !.ruleFault = (res.kind = "none"),
                          !.pc = AfterPhase1(res)]]
    /\ UNCHANGED <<ledger, rules, now, rl, rlg, alerts, ah, bl, blg, fd>>

\* -- call_microservice: a RequestException is captured as a 500 result
ProviderResult(outcome) ==
    IF outcome = "fail" THEN "500:error" ELSE "200:data"

CallMicroservice(r) ==
    /\ proc[r].pc = "ms"
    /\ \E outcome \in {"answer", "fail"} :
         proc' = [proc EXCEPT ![r] =
            [@ EXCEPT !.ms = ProviderResult(outcome), !.msCalls = @ + 1,
                      !.pc = "p2check"]]
    /\ UNCHANGED <<ledger, rules, now, rl, rlg, alerts, ah, bl, blg, fd>>

\* -- call_pg_response_function, lines 141-157
P2Check(r) ==
    /\ proc[r].pc = "p2check"
    /\ \E ok \in BOOLEAN :
         proc' = [proc EXCEPT ![r] =
            IF ~ok
            THEN [@ EXCEPT !.res2 = NoResult, !.respRan = TRUE,
                           !.respFault = TRUE, !.pc = "final"]
            ELSE [@ EXCEPT !.pc = IF Name2(r) \in DOMAIN rules
                                  THEN "p2call" ELSE "p2create"]]
    /\ UNCHANGED <<ledger, rules, now, rl, rlg, alerts, ah, bl, blg, fd>>

\* The parameter list of the generated CREATE FUNCTION reads
\* "(unique_id text, data_input json, integer code, data_output json)"
\* (line 366): "integer code" is no parameter declaration (name before type),
\* so the database rejects the statement whenever it is executed.
ResponseSqlAccepted == FALSE

\* -- create_default_response_function: execute, commit; on error rollback
P2Create(r) ==
    /\ proc[r].pc = "p2create"
    /\ \E ok \in BOOLEAN :
         /\ rules' = IF ok /\ ResponseSqlAccepted
                     THEN [n \in DOMAIN rules \cup {Name2(r)} |->
                             IF n = Name2(r) THEN DefaultResponseFunction(n) ELSE rules[n]]
                     ELSE rules
         /\ proc' = [proc EXCEPT ![r] =
               [@ EXCEPT !.pc = "p2call", !.respFault = ~ok]]
    /\ UNCHANGED <<ledger, now, rl, rlg, alerts, ah, bl, blg, fd>>

\* -- call_pg_response_function, lines 159-184: json.loads(row.results)
P2Call(r) ==
    /\ proc[r].pc = "p2call"
    /\ \E ok \in BOOLEAN :
         LET res == IF ok /\ Name2(r) \in DOMAIN rules
                       /\ JsonLoadsAccepts(RowResultsType)
                    THEN ExecFunction(rules[Name2(r)], ledger[r])
                    ELSE NoResult
         IN proc' = [proc EXCEPT ![r] =
                [@ EXCEPT !.res2 = res, !.respRan = TRUE,
                          !.respFault = @ \/ ~ok, !.pc = "final"]]
    /\ UNCHANGED <<ledger, rules, now, rl, rlg, alerts, ah, bl, blg, fd>>

\* Where control goes after the commit of the final status (lines 63-65, 70-72).
AfterFinalCommitBroken(ok) == "except"

AfterFinalCommit(ok) == IF ok THEN "done" ELSE "except"

\* The status the dispatcher stores after phase 1/2 (lines 61, 68).
FinalStatusOnProviderError(ms) == IF ms = "500:error" THEN "failed" ELSE "completed"

FinalStatus(ms) == "completed"

\* -- process_payment_request, lines 60-72: mark completed, commit, return
Final(r) ==
    /\ proc[r].pc = "final"
    /\ \E ok \in BOOLEAN :
         LET st == FinalStatus(proc[r].ms)
             out == IF proc[r].msCalls > 0 THEN proc[r].res2 ELSE proc[r].res1
         IN /\ ledger' = IF ok THEN [ledger EXCEPT ![r] = st] ELSE ledger
            /\ proc' = [proc EXCEPT ![r] =
                  [@ EXCEPT !.tx = st, !.pc = AfterFinalCommit(ok),
                            !.commitFault = @ \/ ~ok,
                            !.result = IF ok THEN out ELSE @]]
    /\ UNCHANGED <<rules, now, rl, rlg, alerts, ah, bl, blg, fd>>

\* -- process_payment_request, lines 74-90: mark failed, commit, return the
\* 500 envelope.  A commit that fails here leaves the function by exception.
\* A Transaction whose INSERT was rolled back is no longer in the session.
Except(r) ==
    /\ proc[r].pc = "except"
    /\ \E ok \in BOOLEAN :
         /\ ledger' = IF ok /\ ledger[r] # "none"
                      THEN [ledger EXCEPT ![r] = "failed"] ELSE ledger
         /\ proc' = [proc EXCEPT ![r] =
               [@ EXCEPT !.tx = "failed",
                         !.pc = IF ok THEN "done" ELSE "raised",
                         !.commitFault = @ \/ ~ok,
                         !.result = IF ok
                                    THEN Envelope("500", "OUTPUT", "Payment processing error",
                                                  proc[r].route[Len(proc[r].route)], "null")
                                    ELSE RaisedResult]]
    /\ UNCHANGED <<rules, now, rl, rlg, alerts, ah, bl, blg, fd>>

\* f"{data['f002']}Status": the route of the status endpoint's function
StatusRoute(route) == <<route[Len(route)] \o "Status">>

\* The body of an endpoint's error response: {"status": ..., "message": ...}
ErrorResponse(st, msg) ==
    [kind |-> "error", status |-> st, action |-> "", message |-> msg,
     command |-> "", txdata |-> "null"]

\* What calling a phase-1 function with a unique id does to the transactions
\* table: the status function only reads it (SELECT ... INTO, lines 251-263)
\* and the service function does not touch it.
LedgerAfterCallMarked(l, id) ==
    IF id \in DOMAIN l /\ l[id] # "none" THEN [l EXCEPT ![id] = "failed"] ELSE l

LedgerAfterCall(l, id) == l

\* -- get_payment_status, lines 178-299: the same checks, then call_pg_function
\* on the Status function with the caller's f010 as unique_id; no Transaction.
GetPaymentStatus(r) ==
    /\ CanStart(r)
    /\ \E check \in Checks, id \in Reqs \cup {NoSuchId}, svc \in Services,
          route \in Routes, okCheck \in BOOLEAN, okCreate \in BOOLEAN,
          okCall \in BOOLEAN :
         LET v == Validate(check)
             name == FunctionName(AppId, svc, StatusRoute(route))
             rules1 == IF v = "ok" /\ okCheck /\ name \notin DOMAIN rules /\ okCreate
                       THEN [n \in DOMAIN rules \cup {name} |->
                               IF n = name THEN DefaultFunction(n) ELSE rules[n]]
                       ELSE rules
             res == IF okCheck /\ okCall /\ name \in DOMAIN rules1
                    THEN ExecFunction(rules1[name], LookupStatus(id))
                    ELSE NoResult
         IN /\ rules' = rules1
            /\ proc' = [proc EXCEPT ![r] =
                  [@ EXCEPT !.verdict = v, !.f010 = id, !.named = LookupStatus(id),
                            !.svc = svc, !.route = StatusRoute(route),
                            !.pc = IF v = "ok" THEN "sdone" ELSE "rejected",
                            !.res1 = IF v = "ok" THEN res ELSE @,
                            !.ruleFault = (v = "ok" /\ res.kind = "none"),
                            !.result =
                               IF v # "ok" THEN @
                               ELSE IF res.kind = "none"
                               THEN ErrorResponse("500", "Error calling status check function")
                               ELSE res]]
            /\ ledger' = IF v = "ok" /\ res.kind # "none"
                         THEN LedgerAfterCall(ledger, id) ELSE ledger
    /\ UNCHANGED <<now, rl, rlg, alerts, ah, bl, blg, fd>>

\* The handler returns its response; its locals are gone.
Return(r) ==
    /\ proc[r].pc \in {"rejected", "sdone", "done", "raised"}
    /\ proc' = [proc EXCEPT ![r] = [IdleProc EXCEPT !.pc = "returned"]]
    /\ UNCHANGED <<ledger, rules, now, rl, rlg, alerts, ah, bl, blg, fd>>

NextPay ==
    \E r \in Reqs :
        \/ Return(r)
        \/ ProcessPayment(r)
        \/ GetPaymentStatus(r)
        \/ Begin(r)
        \/ P1Check(r)
        \/ P1Create(r)
        \/ P1Call(r)
        \/ CallMicroservice(r)
        \/ P2Check(r)
        \/ P2Create(r)
        \/ P2Call(r)
        \/ Final(r)
        \/ Except(r)

\* In SpecPay fd holds, per Transaction, the number of its fraud_detections
\* rows.  No statement of process_payment or process_payment_request (nor
\* any other caller in the application) invokes analyze_transaction_fraud,
\* so no action of the dispatcher writes it.
InitPay ==
    /\ ledger = [r \in Reqs |-> "none"]
    /\ rules = << >>
    /\ proc = [r \in Reqs |-> IdleProc]
    /\ now = 0
    /\ rl = << >>
    /\ rlg = << >>
    /\ alerts = << >>
    /\ ah = << >>
    /\ bl = << >>
    /\ blg = << >>
    /\ fd = [r \in Reqs |-> 0]

SpecPay == InitPay /\ [][NextPay]_vars

(***************************************************************************)
(* Claims about the dispatcher                                             *)
(***************************************************************************)

\* C1: the committed status of every Transaction only moves pending ->
\* completed or pending -> failed (after its creation as pending), and a
\* completed or failed Transaction never changes again, whatever rule call,
\* provider call or commit fails.
C1_StatusMonotonic ==
    [][\A t \in Reqs :
         /\ ledger[t] \in {"completed", "failed"} => ledger'[t] = ledger[t]
         /\ ledger[t] = "pending" => ledger'[t] \in {"pending", "completed", "failed"}
         /\ ledger[t] = "none" => ledger'[t] \in {"none", "pending"}]_vars

\* A request whose final commit failed and whose handler then stored failed.
C1_Witness ==
    \E r \in Reqs :
        /\ proc[r].pc = "done" /\ proc[r].commitFault
        /\ ledger[r] = "failed" /\ proc[r].res1.kind = "envelope"

\* C2 (as claimed): every finished call of process_payment_request has
\* returned a well-formed envelope, never None and never an exception.
C2_AlwaysEnvelope ==
    \A r \in Reqs :
        proc[r].pc \in {"done", "raised"} => proc[r].result.kind = "envelope"

\* C3 (as claimed): when the phase-1 rule resolution, provisioning or
\* execution failed, the Transaction ends failed and the caller gets the
\* synthetic 500 OUTPUT envelope.
C3_RuleFailureSurfaced ==
    \A r \in Reqs :
        (proc[r].pc = "done" /\ proc[r].ruleFault) =>
            /\ ledger[r] = "failed"
            /\ proc[r].result.kind = "envelope"
            /\ proc[r].result.status = "500"
            /\ proc[r].result.action = "OUTPUT"

C11_RejectedBeforeDispatch ==
    \A r \in Reqs :
        proc[r].verdict \in {"400", "403"} =>
            /\ proc[r].pc = "rejected"
            /\ ledger[r] = "none"
            /\ proc[r].tx = "unset"

\* A request refused with 403 while another request's Transaction is stored.
C11_Witness ==
    \E r \in Reqs, q \in Reqs :
        /\ proc[r].verdict = "403" /\ proc[r].pc = "rejected"
        /\ ledger[r] = "none" /\ ledger[q] = "completed"

\* C16 (as claimed): a finished status check (a route ending in Status, the
\* rule call working), through either endpoint, answers 404 / ERROR / null
\* when f010 names no Transaction and 200 / OUTPUT with the snapshot of the
\* Transaction f010 names otherwise.
C16_StatusLookupByF010 ==
    \A r \in Reqs :
        (/\ proc[r].pc \in {"done", "sdone"}
         /\ EndsWithStatus(proc[r].route[Len(proc[r].route)])
         /\ ~proc[r].ruleFault /\ ~proc[r].commitFault) =>
            IF proc[r].named = "none"
            THEN /\ proc[r].result.status = "404"
                 /\ proc[r].result.action = "ERROR"
                 /\ proc[r].result.txdata = "null"
            ELSE /\ proc[r].result.status = "200"
                 /\ proc[r].result.action = "OUTPUT"
                 /\ proc[r].result.txdata = proc[r].named

\* C24 (as claimed): a dispatched request follows the two-phase order.  The
\* rule is resolved only with the pending Transaction committed; the provider
\* is called at most once, and exactly when phase 1 gave the forward action;
\* the response rule runs only after the provider call and before the
\* Transaction is finalized; and an unseen route that is no status route,
\* with every storage access working and the provider answering 200, ends
\* with the Transaction completed and an envelope of action OUTPUT returned.
C24_TwoPhaseOrder ==
    \A r \in Reqs :
        /\ proc[r].pc \in {"p1check", "p1create", "p1call", "ms", "p2check",
                           "p2create", "p2call", "final"} => ledger[r] = "pending"
        /\ proc[r].msCalls <= 1
        /\ proc[r].msCalls = 1 =>
              proc[r].res1.kind = "envelope" /\ proc[r].res1.action = "SERVICE"
        /\ (proc[r].pc \in {"final", "done"} /\ ~proc[r].commitFault
            /\ proc[r].res1.kind = "envelope" /\ proc[r].res1.action = "SERVICE")
              => proc[r].msCalls = 1 /\ proc[r].respRan
        /\ proc[r].respRan => proc[r].msCalls = 1
        /\ (/\ proc[r].pc = "done"
            /\ ~EndsWithStatus(proc[r].route[Len(proc[r].route)])
            /\ ~proc[r].ruleFault /\ ~proc[r].respFault /\ ~proc[r].commitFault
            /\ proc[r].ms = "200:data")
              => /\ ledger[r] = "completed"
                 /\ proc[r].result.kind = "envelope"
                 /\ proc[r].result.action = "OUTPUT"

\* C25 (as claimed): when a call of process_payment_request that created a
\* Transaction has ended, by a return or by an exception, the Transaction is
\* completed or failed in the ledger, also when a commit failed.
C25_TerminalWhenCallEnds ==
    \A r \in Reqs :
        (proc[r].pc \in {"done", "raised", "returned"} /\ ledger[r] # "none")
            => ledger[r] \in {"completed", "failed"}

\* C21 (as claimed): once a dispatched request has been handled with every
\* storage write working, its Transaction has exactly one Fraud Assessment,
\* and no Transaction ever has two.
C21_OneAssessmentPerTransaction ==
    \A r \in Reqs :
        /\ fd[r] <= 1
        /\ (proc[r].pc = "done" /\ ~proc[r].commitFault /\ ledger[r] # "none")
              => fd[r] = 1

\* C29: a request handled by the status endpoint, answered or refused,
\* leaves the ledger as it was: no Transaction appears and none changes,
\* whether or not the queried unique_id names a Transaction.
C29_StatusQueryLeavesLedger ==
    [][(\E r \in Reqs : proc[r].pc = "idle" /\ proc'[r].pc \in {"sdone", "rejected"})
          => ledger' = ledger]_vars

\* A status query that found the completed Transaction its f010 names.
C29_Witness ==
    \E r \in Reqs :
        /\ proc[r].pc = "sdone" /\ proc[r].f010 \in Reqs
        /\ proc[r].result.status = "200" /\ proc[r].named = "completed"
        /\ ledger[proc[r].f010] = "completed" /\ ledger[r] = "none"

(***************************************************************************)
(* Rate limiter (SecurityMonitor.check_rate_limit); the clock counts       *)
(* half-hours.  One identifier of one identifier_type, several endpoints.  *)
(***************************************************************************)
Endpoints == {"e1", "e2"}

Window == 2         \* window_duration = 3600 s
BlockDuration == 2  \* timedelta(hours=1)
CleanupAge == 48    \* timedelta(hours=24)
NoTime == -1

NoRow == [exists |-> FALSE, count |-> 0, ws |-> 0, created |-> 0,
          blocked |-> FALSE, until |-> NoTime]

NoCall == [ep |-> "none", t |-> 0, allowed |-> FALSE, preExists |-> FALSE,
           preExpired |-> FALSE, wouldCount |-> 0, otherBlocked |-> FALSE,
           preBlocked |-> FALSE, kept |-> TRUE]

\* _cleanup_rate_limits: delete the rows with created_at < now - 24 h
CleanupRateLimits(rows, t) ==
    [k \in Endpoints |->
        IF rows[k].exists /\ rows[k].created < t - CleanupAge THEN NoRow ELSE rows[k]]

\* _is_identifier_blocked: the rows of the identifier with is_blocked = True,
\* whatever their endpoint
BlockedRows(rows) == {k \in Endpoints : rows[k].exists /\ rows[k].blocked}

\* now - window_start > timedelta(seconds=window_duration)
WindowExpired(row, t) == t - row.ws > Window

\* lines 87-111: create the row, or reset the window, or increment
Touch(row, t) ==
    IF ~row.exists
    THEN [exists |-> TRUE, count |-> 1, ws |-> t, created |-> t,
          blocked |-> FALSE, until |-> NoTime]
    ELSE IF WindowExpired(row, t)
    THEN [row EXCEPT !.count = 1, !.ws = t, !.blocked = FALSE, !.until = NoTime]
    ELSE [row EXCEPT !.count = @ + 1]

\* lines 116-119: block the row when the count is over the limit
Enforce(row, t) ==
    IF row.count > Limit
    THEN [row EXCEPT !.blocked = TRUE, !.until = t + BlockDuration]
    ELSE row

\* The tally of allowed calls in the running window of a key: it restarts
\* when the code starts a window (a reset, or a row created after the last
\* window ran out) and goes on when a row is re-created inside a window that
\* has not run out.
Tally(old, hadRow, row, t, allowed) ==
    LET fresh == IF hadRow THEN WindowExpired(row, t)
                 ELSE old.g = NoTime \/ t - old.g > Window
        inc == IF allowed THEN 1 ELSE 0
    IN IF fresh THEN [g |-> t, cnt |-> inc] ELSE [old EXCEPT !.cnt = @ + inc]

\* -- check_rate_limit(identifier, "ip", ep, Limit, Window), the whole call
CheckRateLimit(ep) ==
    LET t == now
        rows1 == CleanupRateLimits(rl, t)
        B == BlockedRows(rows1)
        would == IF rows1[ep].exists /\ ~WindowExpired(rows1[ep], t)
                 THEN rows1[ep].count + 1 ELSE 1
        call == [ep |-> ep, t |-> t, allowed |-> FALSE,
                 preExists |-> rows1[ep].exists,
                 preExpired |-> rows1[ep].exists /\ WindowExpired(rows1[ep], t),
                 wouldCount |-> would,
                 otherBlocked |-> (B \ {ep}) # {},
                 preBlocked |-> \E k \in Endpoints :
                                  /\ rl[k].exists /\ rl[k].blocked
                                  /\ rl[k].until # NoTime /\ t < rl[k].until,
                 kept |-> FALSE]
    IN \E b \in IF B = {} THEN {"none"} ELSE B :    \* .first() of the blocked rows
        LET stillBlocked == b # "none" /\ rows1[b].until # NoTime /\ t < rows1[b].until
            rows2 == IF b # "none" /\ rows1[b].until # NoTime /\ ~stillBlocked
                     THEN [rows1 EXCEPT ![b].blocked = FALSE, ![b].until = NoTime]
                     ELSE rows1
            row3 == Enforce(Touch(rows2[ep], t), t)
            allowed == ~(row3.count > Limit)
        IN IF stillBlocked
           THEN /\ rl' = rows1
                /\ rlg' = [rlg EXCEPT !.last = [call EXCEPT !.kept = (rows1 = rl)]]
           ELSE /\ rl' = [rows2 EXCEPT ![ep] = row3]
                /\ rlg' = [rlg EXCEPT
                      !.last = [call EXCEPT !.allowed = allowed],
                      !.win[ep] = Tally(@, rows2[ep].exists, rows2[ep], t, allowed)]

CheckRateLimitAny ==
    /\ \E ep \in Endpoints : CheckRateLimit(ep)
    /\ UNCHANGED <<ledger, rules, proc, now, alerts, ah, bl, blg, fd>>

\* Time passes between calls: half an hour, or a day.
TickRate ==
    /\ \E d \in {1, CleanupAge} :
         /\ d = 1 => now % CleanupAge < MaxPhase
         /\ d = CleanupAge => now \div CleanupAge < MaxDays
         /\ now' = now + d
    /\ UNCHANGED <<ledger, rules, proc, rl, rlg, alerts, ah, bl, blg, fd>>

NextRate == CheckRateLimitAny \/ TickRate

InitRate ==
    /\ ledger = << >>
    /\ rules = << >>
    /\ proc = << >>
    /\ now = 0
    /\ rl = [k \in Endpoints |-> NoRow]
    /\ rlg = [last |-> NoCall, win |-> [k \in Endpoints |-> [g |-> NoTime, cnt |-> 0]]]
    /\ alerts = << >>
    /\ ah = << >>
    /\ bl = << >>
    /\ blg = << >>
    /\ fd = << >>

SpecRate == InitRate /\ [][NextRate]_vars

\* C5 (as claimed): in the running window of a key at most Limit calls are
\* allowed, however old the stored row is.
C5_AtMostLimitPerWindow ==
    \A k \in Endpoints : rlg.win[k].cnt <= Limit

\* C6 (as claimed): the first call after the window of its key has expired is
\* allowed and leaves count 1, window_start = now and no block (stated for
\* the calls made while no other endpoint of the identifier is blocked).
C6_FirstAfterExpirySucceeds ==
    (rlg.last.preExpired /\ ~rlg.last.otherBlocked) =>
        /\ rlg.last.allowed
        /\ rl[rlg.last.ep].count = 1
        /\ rl[rlg.last.ep].ws = rlg.last.t
        /\ ~rl[rlg.last.ep].blocked

\* C7 (as claimed): a call on an endpoint whose own count stays within the
\* limit is allowed although another endpoint of the identifier is blocked.
C7_EndpointsIndependent ==
    (rlg.last.ep # "none" /\ rlg.last.otherBlocked /\ rlg.last.wouldCount <= Limit)
        => rlg.last.allowed

\* C26 (as claimed): a call made while a row of the identifier is blocked
\* and its blocked_until is not yet reached is rejected and leaves the
\* rate_limits rows as they were.
C26_BlockHoldsUntilExpiry ==
    rlg.last.preBlocked => ~rlg.last.allowed /\ rlg.last.kept

(***************************************************************************)
(* Alert engine (AlertMonitor); the clock counts hours.                    *)
(***************************************************************************)
Clients == {1, 2, 3}        \* the active clients, by id
Users == {1}
NoClient == 0               \* AlertRule.client_id is null
NoMetric == -1              \* calculate_metric returned None

\* The alert_rules table: a global rule and a rule for client 1.
AlertRules ==
    << [id |-> 1, alert_type |-> "performance", metric |-> "success_rate",
        op |-> "<", threshold |-> 70, time_window |-> 1,
        client_id |-> NoClient, is_active |-> TRUE],
       [id |-> 2, alert_type |-> "activity", metric |-> "inactivity",
        op |-> ">", threshold |-> 72, time_window |-> 1,
        client_id |-> 1, is_active |-> TRUE] >>

RuleIds == DOMAIN AlertRules

\* The values calculate_metric can give for a client under a metric.
MetricValues(metric) ==
    IF metric = "success_rate" THEN {NoMetric, 60, 90} ELSE {10, 90}

\* evaluate_threshold
EvaluateThreshold(value, threshold, op) ==
    IF op = ">" THEN value > threshold
    ELSE IF op = "<" THEN value < threshold
    ELSE IF op = ">=" THEN value >= threshold
    ELSE IF op = "<=" THEN value <= threshold
    ELSE IF op = "==" THEN value = threshold
    ELSE IF op = "!=" THEN value # threshold
    ELSE FALSE

\* determine_severity
DetermineSeverityInclusive(rule, v) ==
    IF rule.metric = "success_rate"
    THEN IF v <= 50 THEN "critical" ELSE IF v <= 70 THEN "error"
         ELSE IF v <= 85 THEN "warning" ELSE "info"
    ELSE IF rule.metric = "inactivity"
    THEN IF v >= 168 THEN "critical" ELSE IF v >= 72 THEN "error"
         ELSE IF v >= 24 THEN "warning" ELSE "info"
    ELSE "warning"

DetermineSeverity(rule, v) ==
    IF rule.metric = "success_rate"
    THEN IF v < 50 THEN "critical" ELSE IF v < 70 THEN "error"
         ELSE IF v < 85 THEN "warning" ELSE "info"
    ELSE IF rule.metric = "inactivity"
    THEN IF v > 168 THEN "critical" ELSE IF v > 72 THEN "error"
         ELSE IF v > 24 THEN "warning" ELSE "info"
    ELSE "warning"

\* check_rule, lines 66-73: an active Alert of the rule's type and the client
\* created within the rule's time_window
ExistingAlert(table, rule, c, t) ==
    \E i \in DOMAIN table :
        /\ table[i].alert_type = rule.alert_type
        /\ table[i].client_id = c
        /\ table[i].status = "active"
        /\ table[i].created_at >= t - rule.time_window

\* create_alert, lines 216-232
NewAlert(rule, c, v, t) ==
    [alert_type |-> rule.alert_type, client_id |-> c, status |-> "active",
     severity |-> DetermineSeverity(rule, v), created_at |-> t,
     acknowledged_at |-> NoTime, acknowledged_by |-> 0,
     resolved_at |-> NoTime, resolved_by |-> 0]

\* check_rule, lines 48-51: the rule's client, or all active clients (numbered
\* in the order the query returns them)
RECURSIVE Ascending(_)
Ascending(S) ==
    IF S = {} THEN << >>
    ELSE LET x == CHOOSE y \in S : \A z \in S : y <= z
         IN <<x>> \o Ascending(S \ {x})

ClientsInScope(rule) ==
    IF rule.client_id # NoClient THEN <<rule.client_id>> ELSE Ascending(Clients)

ScopeSet(rule) == IF rule.client_id # NoClient THEN {rule.client_id} ELSE Clients

\* check_rule, lines 53-81: the loop over the clients.  The result is the
\* table and the client an Alert was created for (create_alert gives None when
\* its commit fails, and the loop goes on).
RECURSIVE CheckClients(_, _, _, _, _, _)
CheckClients(cs, rule, table, t, m, dbok) ==
    IF cs = << >> THEN [table |-> table, made |-> {}]
    ELSE LET c == Head(cs)
             rest == CheckClients(Tail(cs), rule, table, t, m, dbok)
         IN IF m[c] = NoMetric THEN rest
            ELSE IF /\ EvaluateThreshold(m[c], rule.threshold, rule.op)
                    /\ ~ExistingAlert(table, rule, c, t)
                    /\ dbok
                 THEN [table |-> Append(table, NewAlert(rule, c, m[c], t)),
                       made |-> {c}]
                 ELSE rest

CheckRule(rule, table, t, m, dbok) ==
    CheckClients(ClientsInScope(rule), rule, table, t, m, dbok)

\* The (rule, client) pairs of a rule whose client is in scope and breaches.
Breaching(i, m) ==
    {<<i, c>> : c \in {x \in ScopeSet(AlertRules[i]) :
        m[x] # NoMetric
        /\ EvaluateThreshold(m[x], AlertRules[i].threshold, AlertRules[i].op)}}

HasActive(table, type, c) ==
    \E k \in DOMAIN table :
        table[k].alert_type = type /\ table[k].client_id = c /\ table[k].status = "active"

\* -- check_all_rules: every active rule in turn.  Beside the table the
\* result holds what the run saw: the breaching pairs, those of them without
\* an active Alert in the time_window before their rule ran (owed), and those
\* without any active Alert of the type (cand).
RECURSIVE CheckRulesFrom(_, _, _, _, _)
CheckRulesFrom(i, table, t, ms, dbok) ==
    IF i > Len(AlertRules)
    THEN [table |-> table, breach |-> {}, owed |-> {}, cand |-> {}]
    ELSE LET rule == AlertRules[i] IN
         IF ~rule.is_active THEN CheckRulesFrom(i + 1, table, t, ms, dbok)
         ELSE LET rest == CheckRulesFrom(i + 1, CheckRule(rule, table, t, ms[i], dbok).table,
                                         t, ms, dbok)
                  br == Breaching(i, ms[i])
              IN [table |-> rest.table,
                  breach |-> br \cup rest.breach,
                  owed |-> {p \in br : ~ExistingAlert(table, rule, p[2], t)} \cup rest.owed,
                  cand |-> {p \in br : ~HasActive(table, rule.alert_type, p[2])} \cup rest.cand]

NoObservation ==
    [evals |-> 0, ops |-> 0, owed |-> {}, lastT |-> NoTime,
     cand |-> {}, candT |-> NoTime, owed2 |-> {}]

CheckAllRules ==
    /\ ah.evals < MaxEvals
    /\ \E m1 \in [ScopeSet(AlertRules[1]) -> MetricValues(AlertRules[1].metric)],
          m2 \in [ScopeSet(AlertRules[2]) -> MetricValues(AlertRules[2].metric)],
          dbok \in BOOLEAN :
         LET out == CheckRulesFrom(1, alerts, now, <<m1, m2>>, dbok)
         IN /\ alerts' = out.table
            /\ ah' = [ah EXCEPT
                  !.evals = @ + 1,
                  !.lastT = now,
                  !.owed = IF dbok THEN out.owed ELSE {},
                  !.candT = now,
                  !.cand = IF dbok THEN out.cand ELSE {},
                  !.owed2 = IF dbok
                            THEN {p \in ah.cand \cap out.breach :
                                    now - ah.candT <= AlertRules[p[1]].time_window}
                            ELSE {}]
    /\ UNCHANGED <<ledger, rules, proc, now, rl, rlg, bl, blg, fd>>

Touched(h) == [h EXCEPT !.ops = @ + 1, !.owed = {}, !.cand = {}, !.owed2 = {}]

\* -- acknowledge_alert(alert_id, user_id)
AcknowledgeAlert ==
    /\ ah.ops < MaxLifecycle
    /\ \E id \in 1..(Len(alerts) + 1), u \in Users, ok \in BOOLEAN :
         /\ alerts' = IF id \in DOMAIN alerts /\ ok
                      THEN [alerts EXCEPT ![id] =
                              [@ EXCEPT !.status = "acknowledged",
                                        !.acknowledged_at = now,
                                        !.acknowledged_by = u]]
                      ELSE alerts
    /\ ah' = Touched(ah)
    /\ UNCHANGED <<ledger, rules, proc, now, rl, rlg, bl, blg, fd>>

\* -- resolve_alert(alert_id, user_id)
ResolveAlert ==
    /\ ah.ops < MaxLifecycle
    /\ \E id \in 1..(Len(alerts) + 1), u \in Users, ok \in BOOLEAN :
         /\ alerts' = IF id \in DOMAIN alerts /\ ok
                      THEN [alerts EXCEPT ![id] =
                              [@ EXCEPT !.status = "resolved",
                                        !.resolved_at = now,
                                        !.resolved_by = u]]
                      ELSE alerts
    /\ ah' = Touched(ah)
    /\ UNCHANGED <<ledger, rules, proc, now, rl, rlg, bl, blg, fd>>

TickAlert ==
    /\ now < MaxTimeAlert
    /\ now' = now + 1
    /\ UNCHANGED <<ledger, rules, proc, rl, rlg, alerts, ah, bl, blg, fd>>

NextAlert == CheckAllRules \/ AcknowledgeAlert \/ ResolveAlert \/ TickAlert

InitAlert ==
    /\ ledger = << >>
    /\ rules = << >>
    /\ proc = << >>
    /\ now = 0
    /\ rl = << >>
    /\ rlg = << >>
    /\ alerts = << >>
    /\ ah = NoObservation
    /\ bl = << >>
    /\ blg = << >>
    /\ fd = << >>

SpecAlert == InitAlert /\ [][NextAlert]_vars

ActiveCount(type, c) ==
    Cardinality({i \in DOMAIN alerts :
        alerts[i].alert_type = type /\ alerts[i].client_id = c
        /\ alerts[i].status = "active"})

\* C8 (as claimed): an Alert's status only moves forward; a resolved Alert
\* stays resolved and an acknowledged one never becomes active again.
C8_AlertStatusForward ==
    [][\A i \in DOMAIN alerts :
         /\ alerts[i].status = "resolved" => alerts'[i].status = "resolved"
         /\ alerts[i].status = "acknowledged" =>
                alerts'[i].status \in {"acknowledged", "resolved"}]_vars

\* C9 (as claimed): when the rules are evaluated twice, the second time within
\* the rule's time_window, with storage working and no acknowledge or resolve
\* in between, a client in scope that breached both times and had no active
\* Alert of the type before has exactly one active Alert of the type.
C9_OneAlertAfterTwoEvaluations ==
    \A p \in ah.owed2 : ActiveCount(AlertRules[p[1]].alert_type, p[2]) = 1

\* C10 (as claimed): after an evaluation with storage working, every client
\* in scope that breached and had no active Alert of the type within the
\* time_window has one.
C10_EveryBreachAlerted ==
    \A p \in ah.owed : ExistingAlert(alerts, AlertRules[p[1]], p[2], ah.lastT)

\* C27 (as claimed): the first check_ip_blacklist after a block_ip call that
\* reported success or "IP already blocked", made with expires_at null or
\* later than both the call and the check, reports the IP as blocked.
C27_BlockedAfterBlockIp ==
    (blg.called /\ blg.fault = "none" /\ blg.owed \in {"blocked", "already"})
        => blg.blocked

(***************************************************************************)
(* Severity of a created Alert (check_rule -> create_alert ->              *)
(* determine_severity), over rules of every metric.                        *)
(***************************************************************************)
Metrics == {"success_rate", "inactivity", "transaction_count", "revenue"}

\* Metric values on both sides of every breakpoint of determine_severity
SeverityValues == {0, 24, 25, 49, 50, 60, 69, 70, 72, 73, 84, 85, 100, 168, 169}

\* The rules an administrator can store for client 1
SeverityRules ==
    {[id |-> 3, alert_type |-> "performance", metric |-> m, op |-> o,
      threshold |-> th, time_window |-> 1, client_id |-> 1, is_active |-> TRUE] :
        m \in Metrics, o \in {"<", ">", ">="}, th \in {24, 70, 168}}

\* -- check_rule(rule) for the drawn rule and metric value
CheckOneRule ==
    /\ ~ah.ran
    /\ \E dbok \in BOOLEAN :
         alerts' = CheckRule(ah.rule, alerts, now,
                             [c \in {ah.rule.client_id} |-> ah.value], dbok).table
    /\ ah' = [ah EXCEPT !.ran = TRUE]
    /\ UNCHANGED <<ledger, rules, proc, now, rl, rlg, bl, blg, fd>>

NextSeverity == CheckOneRule

InitSeverity ==
    /\ ledger = << >>
    /\ rules = << >>
    /\ proc = << >>
    /\ now = 0
    /\ rl = << >>
    /\ rlg = << >>
    /\ alerts = << >>
    /\ ah \in {[rule |-> r, value |-> v, ran |-> FALSE] :
                 r \in SeverityRules, v \in SeverityValues}
    /\ bl = << >>
    /\ blg = << >>
    /\ fd = << >>

SpecSeverity == InitSeverity /\ [][NextSeverity]_vars

\* The breakpoint tables as stated: the first bound the value is beyond
\* gives the severity.
SuccessRateTable ==
    << [below |-> 50, severity |-> "critical"],
       [below |-> 70, severity |-> "error"],
       [below |-> 85, severity |-> "warning"] >>

InactivityTable ==
    << [above |-> 168, severity |-> "critical"],
       [above |-> 72, severity |-> "error"],
       [above |-> 24, severity |-> "warning"] >>

StatedSeverity(metric, v) ==
    IF metric = "success_rate"
    THEN LET hits == {i \in 1..3 : v < SuccessRateTable[i].below}
         IN IF hits = {} THEN "info"
            ELSE SuccessRateTable[CHOOSE i \in hits : \A j \in hits : i <= j].severity
    ELSE IF metric = "inactivity"
    THEN LET hits == {i \in 1..3 : v > InactivityTable[i].above}
         IN IF hits = {} THEN "info"
            ELSE InactivityTable[CHOOSE i \in hits : \A j \in hits : i <= j].severity
    ELSE "warning"

\* C22: every Alert check_rule creates carries the severity the breakpoint
\* tables give for its rule's metric and the metric value; a success rate of
\* 60 under a rule "< 70" gives an Alert of severity error.
C22_SeverityBreakpoints ==
    /\ \A i \in DOMAIN alerts :
          alerts[i].severity = StatedSeverity(ah.rule.metric, ah.value)
    /\ (/\ ah.ran /\ alerts # << >>
        /\ ah.rule.metric = "success_rate" /\ ah.value = 60
        /\ ah.rule.op = "<" /\ ah.rule.threshold = 70)
          => alerts[1].severity = "error"

\* The scenario: success rate 60 under "< 70" has created its Alert.
C22_Witness ==
    /\ ah.ran /\ Len(alerts) = 1
    /\ ah.rule.metric = "success_rate" /\ ah.value = 60
    /\ ah.rule.op = "<" /\ ah.rule.threshold = 70
    /\ alerts[1].severity = "error"

\* C30 (as claimed): once an Alert's acknowledged_at / acknowledged_by or
\* resolved_at / resolved_by has been set, no later step changes them.
C30_TransitionStampsWrittenOnce ==
    [][\A i \in DOMAIN alerts :
         /\ alerts[i].acknowledged_at # NoTime =>
               /\ alerts'[i].acknowledged_at = alerts[i].acknowledged_at
               /\ alerts'[i].acknowledged_by = alerts[i].acknowledged_by
         /\ alerts[i].resolved_at # NoTime =>
               /\ alerts'[i].resolved_at = alerts[i].resolved_at
               /\ alerts'[i].resolved_by = alerts[i].resolved_by]_vars

(***************************************************************************)
(* IP blacklist (SecurityMonitor.check_ip_blacklist, block_ip); the clock  *)
(* counts hours.  One IP address: ip_address is unique in the table.       *)
(***************************************************************************)
Reasons == {"fraud", "abuse"}

\* expires_at values a caller of block_ip passes: null, or a time
ExpiryTimes == {NoTime} \cup (0..(MaxTimeBl + 1))

NoEntry == [exists |-> FALSE, active |-> FALSE, expires |-> NoTime, reason |-> "none"]

\* A block_ip call as observed: the expires_at it was given and what it
\* reported ("blocked", "already"); NoBlock also stands for a call that
\* failed or was given an expires_at not in the future.
NoBlock == [made |-> FALSE, expires |-> NoTime, outcome |-> "none"]

\* block: the last block_ip call, if no check has followed it yet; owed: the
\* last check was the next check after such a call and made before the
\* call's expires_at
NoCheck == [called |-> FALSE, t |-> 0, fault |-> "none", pre |-> NoEntry,
            post |-> NoEntry, blocked |-> FALSE, message |-> "none",
            block |-> NoBlock, owed |-> "none"]

\* blacklist_entry.expires_at and datetime.utcnow() > blacklist_entry.expires_at
ExpiredNever(entry, t) == FALSE

Expired(entry, t) == entry.expires # NoTime /\ t > entry.expires

\* -- check_ip_blacklist(ip).  fault: the query raises ("read"), or the commit
\* of the deactivation raises ("commit"); both end in the except branch.
CheckIpBlacklist ==
    /\ \E fault \in {"none", "read", "commit"} :
         LET found == bl.exists /\ bl.active
             lapse == found /\ Expired(bl, now)
             post == IF fault = "none" /\ lapse THEN [bl EXCEPT !.active = FALSE] ELSE bl
             failed == fault = "read" \/ (fault = "commit" /\ lapse)
             blocked == ~failed /\ found /\ ~lapse
             message == IF failed THEN "Blacklist check failed"
                        ELSE IF ~found THEN "IP not blacklisted"
                        ELSE IF lapse THEN "Block expired"
                        ELSE bl.reason
         IN /\ bl' = post
            /\ blg' = [called |-> TRUE, t |-> now, fault |-> IF failed THEN fault ELSE "none",
                       pre |-> bl, post |-> post, blocked |-> blocked,
                       message |-> message, block |-> NoBlock,
                       owed |-> IF /\ blg.block.made
                                   /\ \/ blg.block.expires = NoTime
                                      \/ blg.block.expires > now
                                THEN blg.block.outcome ELSE "none"]
    /\ UNCHANGED <<ledger, rules, proc, now, rl, rlg, alerts, ah, fd>>

\* -- block_ip(ip, reason, blocked_by, expires_at): an active entry is left as
\* it is; an inactive one is reactivated; otherwise a new entry is inserted.
BlockIp ==
    /\ \E reason \in Reasons, expires \in ExpiryTimes, ok \in BOOLEAN :
         /\ bl' = IF (bl.exists /\ bl.active) \/ ~ok THEN bl
                  ELSE [exists |-> TRUE, active |-> TRUE, expires |-> expires,
                        reason |-> reason]
         /\ blg' = [blg EXCEPT !.block =
               IF ok /\ (expires = NoTime \/ expires > now)
               THEN [made |-> TRUE, expires |-> expires,
                     outcome |-> IF bl.exists /\ bl.active THEN "already"
                                 ELSE "blocked"]
               ELSE NoBlock]
    /\ UNCHANGED <<ledger, rules, proc, now, rl, rlg, alerts, ah, fd>>

TickBlacklist ==
    /\ now < MaxTimeBl
    /\ now' = now + 1
    /\ UNCHANGED <<ledger, rules, proc, rl, rlg, alerts, ah, bl, blg, fd>>

NextBlacklist == CheckIpBlacklist \/ BlockIp \/ TickBlacklist

InitBlacklist ==
    /\ ledger = << >>
    /\ rules = << >>
    /\ proc = << >>
    /\ now = 0
    /\ rl = << >>
    /\ rlg = << >>
    /\ alerts = << >>
    /\ ah = << >>
    /\ bl = NoEntry
    /\ blg = NoCheck
    /\ fd = << >>

SpecBlacklist == InitBlacklist /\ [][NextBlacklist]_vars

\* C12: a check_ip_blacklist call whose storage access worked, made on an
\* active entry: when expires_at was in the past it reports not blocked and
\* leaves the entry inactive; when expires_at was null or in the future it
\* reports blocked with the stored reason and leaves the entry as it was.
C12_LazyExpiry ==
    (blg.called /\ blg.fault = "none" /\ blg.pre.exists /\ blg.pre.active) =>
        /\ (blg.pre.expires # NoTime /\ blg.pre.expires < blg.t) =>
                ~blg.blocked /\ ~blg.post.active
        /\ (blg.pre.expires = NoTime \/ blg.pre.expires > blg.t) =>
                blg.blocked /\ blg.message = blg.pre.reason /\ blg.post = blg.pre

\* A check that found an active entry whose expires_at had passed.
C12_Witness ==
    /\ blg.called /\ blg.fault = "none"
    /\ blg.pre.exists /\ blg.pre.active
    /\ blg.pre.expires # NoTime /\ blg.pre.expires < blg.t
    /\ ~bl.active

(***************************************************************************)
(* Fraud scorer (SecurityMonitor.analyze_transaction_fraud).  A float is   *)
(* held as [t, u]: the double nearest to t/10, moved by u units in the     *)
(* last place; weights and thresholds are in tenths.                       *)
(***************************************************************************)
WeightHighAmount == 3           \* 'high_amount' weight 0.3
WeightRapid == 4                \* 'rapid_transactions' weight 0.4
WeightUnusualHours == 2         \* 'unusual_hours' weight 0.2
WeightNewClient == 3            \* 'new_client' weight 0.3
HighAmountThreshold == 10000
RapidThreshold == 5
UnusualStartHour == 22
UnusualEndHour == 6
NewClientDays == 7
ScoreCap == 10                  \* min(risk_score, 1.0)
PendingAbove == 5               \* risk_score > 0.5
HighAbove == 8                  \* risk_score > 0.8

Indicators == {"high_amount", "rapid_transactions", "unusual_hours", "new_client"}

\* The rules in the order analyze_transaction_fraud tests them.
RuleOrder == <<"high_amount", "rapid_transactions", "unusual_hours", "new_client">>

Weight(ind) ==
    IF ind = "high_amount" THEN WeightHighAmount
    ELSE IF ind = "rapid_transactions" THEN WeightRapid
    ELSE IF ind = "unusual_hours" THEN WeightUnusualHours
    ELSE WeightNewClient

Amounts == {0, 10000, 15000}            \* 0: no amount
RecentCounts == {1, 5, 6}
Hours == 0..23
ClientAges == {2, 6, 7, 30}             \* days since the client was created

\* The rules a transaction triggers (lines 229-258).
Triggered(amount, recent, hour, hasClient, age) ==
    {ind \in Indicators :
        \/ ind = "high_amount" /\ amount # 0 /\ amount > HighAmountThreshold
        \/ ind = "rapid_transactions" /\ recent > RapidThreshold
        \/ ind = "unusual_hours" /\ (hour >= UnusualStartHour \/ hour <= UnusualEndHour)
        \/ ind = "new_client" /\ hasClient /\ age < NewClientDays}

\* IEEE-754 double addition risk_score += weight on the sums that occur: the
\* result is the double nearest to the decimal sum except
\*   0.4 + 0.2 = 0.6000000000000001, 0.6000000000000001 + 0.3 = 0.9000000000000001,
\*   0.7 + 0.2 = 0.8999999999999999.
RoundingUlps(x, w) ==
    IF x.t = 4 /\ x.u = 0 /\ w = 2 THEN 1
    ELSE IF x.t = 6 /\ x.u = 1 /\ w = 3 THEN 1
    ELSE IF x.t = 7 /\ x.u = 0 /\ w = 2 THEN -1
    ELSE 0

FloatAdd(x, w) == [t |-> x.t + w, u |-> RoundingUlps(x, w)]

\* x > tenths/10 and a <= b on floats
FloatGreater(x, tenths) == x.t > tenths \/ (x.t = tenths /\ x.u > 0)

FloatLeq(a, b) == a.t < b.t \/ (a.t = b.t /\ a.u <= b.u)

\* risk_score after the rules from position i on, starting from x
RECURSIVE RiskScoreFrom(_, _, _)
RiskScoreFrom(i, x, trig) ==
    IF i > Len(RuleOrder) THEN x
    ELSE RiskScoreFrom(i + 1,
                       IF RuleOrder[i] \in trig THEN FloatAdd(x, Weight(RuleOrder[i])) ELSE x,
                       trig)

RiskScore(trig) == RiskScoreFrom(1, [t |-> 0, u |-> 0], trig)

\* risk_score = min(risk_score, 1.0)
UncappedScore(x) == x

CappedScore(x) == IF FloatGreater(x, ScoreCap) THEN [t |-> ScoreCap, u |-> 0] ELSE x

\* status = 'pending' if risk_score > 0.5 else 'approved'
AssessmentStatusApproved(x) == "approved"

AssessmentStatus(x) == IF FloatGreater(x, PendingAbove) THEN "pending" ELSE "approved"

\* severity = 'high' if risk_score > 0.8 else 'medium'
EventSeverity(x) == IF FloatGreater(x, HighAbove) THEN "high" ELSE "medium"

\* A transaction handed to the scorer, not analysed yet.
Submitted(amount, recent, hour, hasClient, age) ==
    [analysed |-> FALSE, amount |-> amount, recent |-> recent, hour |-> hour,
     hasClient |-> hasClient, age |-> age, triggered |-> {},
     stored |-> FALSE, score |-> [t |-> 0, u |-> 0], status |-> "none",
     eventOk |-> FALSE, event |-> "none"]

\* -- analyze_transaction_fraud(transaction).  dbok: the commit of the
\* assessment works (else rollback, nothing stored, None returned); evok: the
\* commit inside log_security_event works.
AnalyzeTransactionFraud ==
    /\ ~fd.analysed
    /\ \E dbok \in BOOLEAN, evok \in BOOLEAN :
         LET trig == Triggered(fd.amount, fd.recent, fd.hour, fd.hasClient, fd.age)
             raw == RiskScore(trig)
         IN fd' = [fd EXCEPT
                   !.analysed = TRUE,
                   !.triggered = trig,
                   !.stored = dbok,
                   !.score = IF dbok THEN CappedScore(raw) ELSE [t |-> 0, u |-> 0],
                   !.status = IF dbok THEN AssessmentStatus(raw) ELSE "none",
                   !.eventOk = dbok /\ evok,
                   !.event = IF dbok /\ evok /\ FloatGreater(raw, PendingAbove)
                             THEN EventSeverity(raw) ELSE "none"]
    /\ UNCHANGED <<ledger, rules, proc, now, rl, rlg, alerts, ah, bl, blg>>

NextFraud == AnalyzeTransactionFraud

InitFraud ==
    /\ ledger = << >>
    /\ rules = << >>
    /\ proc = << >>
    /\ now = 0
    /\ rl = << >>
    /\ rlg = << >>
    /\ alerts = << >>
    /\ ah = << >>
    /\ bl = << >>
    /\ blg = << >>
    /\ fd \in {Submitted(amount, recent, hour, hasClient, age) :
                  amount \in Amounts, recent \in RecentCounts, hour \in Hours,
                  hasClient \in BOOLEAN, age \in ClientAges}

SpecFraud == InitFraud /\ [][NextFraud]_vars

RECURSIVE SumWeights(_)
SumWeights(S) ==
    IF S = {} THEN 0
    ELSE LET x == CHOOSE y \in S : TRUE IN Weight(x) + SumWeights(S \ {x})

\* C13: every stored risk_score is the sum of the weights of the triggered
\* indicators capped at 1.0 (to the last place of the float), lies in [0, 1],
\* and is not lower than the stored score of the same transaction with any
\* one of its indicators off.
C13_ScoreBoundedMonotone ==
    fd.stored =>
        /\ fd.score.t = IF SumWeights(fd.triggered) > ScoreCap THEN ScoreCap
                        ELSE SumWeights(fd.triggered)
        /\ fd.score.u \in {-1, 0, 1}
        /\ FloatLeq([t |-> 0, u |-> 0], fd.score)
        /\ FloatLeq(fd.score, [t |-> ScoreCap, u |-> 0])
        /\ \A ind \in fd.triggered :
               FloatLeq(CappedScore(RiskScore(fd.triggered \ {ind})), fd.score)

\* All four indicators on: the sum 1.2 is stored as 1.0.
C13_Witness == fd.stored /\ fd.triggered = Indicators /\ fd.score.t = ScoreCap

\* C14 (as claimed): amount 15000 at 02:00 from a client created 2 days ago,
\* no rapid transactions, storage working: risk_score 0.8, status pending and
\* a Security Event of severity high.
C14_ScenarioHighSeverity ==
    (/\ fd.stored /\ fd.eventOk
     /\ fd.amount = 15000 /\ fd.hour = 2 /\ fd.hasClient /\ fd.age = 2
     /\ fd.recent <= RapidThreshold) =>
        /\ fd.score = [t |-> 8, u |-> 0]
        /\ fd.status = "pending"
        /\ fd.event = "high"

\* C15: for every stored assessment the status is approved exactly when the
\* score is <= 0.5 and pending otherwise; with the event store working, a
\* Security Event exists exactly when the score is > 0.5, of severity high
\* when the score is > 0.8 and medium otherwise.
C15_StatusAndEventByScore ==
    fd.stored =>
        /\ fd.status = IF FloatLeq(fd.score, [t |-> PendingAbove, u |-> 0])
                       THEN "approved" ELSE "pending"
        /\ fd.eventOk =>
              fd.event = IF FloatLeq(fd.score, [t |-> PendingAbove, u |-> 0]) THEN "none"
                         ELSE IF FloatLeq(fd.score, [t |-> HighAbove, u |-> 0]) THEN "medium"
                         ELSE "high"

\* Score exactly 0.8: pending, and a medium event.
C15_Witness ==
    /\ fd.stored /\ fd.eventOk /\ fd.score = [t |-> 8, u |-> 0]
    /\ fd.status = "pending" /\ fd.event = "medium"

(***************************************************************************)
(* Concurrent rule resolution: call_pg_function run by several callers,    *)
(* each in its own database session, interleaved at its check-exists,      *)
(* create-default (execute, commit) and call steps.  Here rules is the     *)
(* function catalog as a set of rows, committed or not; the catalog's      *)
(* unique index makes a second creator of a name wait for the first.       *)
(***************************************************************************)
Callers == 1..MaxCallers

ResolveKeys == {FunctionName(AppId, svc, route) : svc \in Services, route \in Routes}

IdleCaller == [pc |-> "idle", name |-> <<>>, created |-> "no", result |-> NoResult]

\* The catalog rows a caller's session sees: its own uncommitted version of
\* the function if it has one, else the committed one.
VisibleRows(p, name) ==
    LET own == {row \in rules : row.name = name /\ ~row.committed /\ row.owner = p}
    IN IF own # {} THEN own
       ELSE {row \in rules : row.name = name /\ row.committed}

\* A CREATE of a name waits while another session's creation is uncommitted.
MustWait(p, name) ==
    \E row \in rules : row.name = name /\ ~row.committed /\ row.owner # p

\* create_default_function: an error of the CREATE is caught (rollback); the
\* caller goes on to the call.
AfterCreateErrorRaised == "failed"

AfterCreateError == "call"

\* -- a caller enters call_pg_function(function_name, ...)
ResolveStart(p) ==
    /\ proc[p].pc = "idle"
    /\ \E name \in ResolveKeys :
         proc' = [proc EXCEPT ![p] = [@ EXCEPT !.pc = "check", !.name = name]]
    /\ UNCHANGED <<ledger, rules, now, rl, rlg, alerts, ah, bl, blg, fd>>

\* -- call_pg_function, lines 96-110: the routines query
ResolveCheck(p) ==
    /\ proc[p].pc = "check"
    /\ proc' = [proc EXCEPT ![p].pc =
                  IF VisibleRows(p, proc[p].name) # {} THEN "call" ELSE "create"]
    /\ UNCHANGED <<ledger, rules, now, rl, rlg, alerts, ah, bl, blg, fd>>

\* -- create_default_function: execute CREATE OR REPLACE.  With no committed
\* row the function is inserted (uncommitted).  With a row committed since
\* the caller's check, the statement either replaces it or fails on the
\* unique index, by the moment it started.  Other sessions see the replaced
\* version until the new one is committed.
ResolveCreate(p) ==
    /\ proc[p].pc = "create"
    /\ ~MustWait(p, proc[p].name)
    /\ LET name == proc[p].name
           mine == [name |-> name, def |-> DefaultFunction(name), owner |-> p,
                    committed |-> FALSE]
       IN IF VisibleRows(p, name) = {}
          THEN /\ rules' = rules \cup {mine}
               /\ proc' = [proc EXCEPT ![p] = [@ EXCEPT !.pc = "commit", !.created = "yes"]]
          ELSE \E replaced \in BOOLEAN :
                 IF replaced
                 THEN /\ rules' = rules \cup {mine}
                      /\ proc' = [proc EXCEPT ![p] =
                            [@ EXCEPT !.pc = "commit", !.created = "yes"]]
                 ELSE /\ rules' = rules
                      /\ proc' = [proc EXCEPT ![p] =
                            [@ EXCEPT !.pc = AfterCreateError, !.created = "conflict"]]
    /\ UNCHANGED <<ledger, now, rl, rlg, alerts, ah, bl, blg, fd>>

\* -- create_default_function: db_session.commit()
ResolveCommit(p) ==
    /\ proc[p].pc = "commit"
    /\ rules' = {IF row.owner = p /\ ~row.committed
                 THEN [row EXCEPT !.committed = TRUE] ELSE row :
                 row \in {x \in rules : ~(x.name = proc[p].name /\ x.committed)}}
    /\ proc' = [proc EXCEPT ![p].pc = "call"]
    /\ UNCHANGED <<ledger, now, rl, rlg, alerts, ah, bl, blg, fd>>

\* -- call_pg_function, lines 112-135: call the function; None when the call
\* raises (no such function)
ResolveCall(p) ==
    /\ proc[p].pc = "call"
    /\ LET seen == VisibleRows(p, proc[p].name)
       IN IF seen = {}
          THEN proc' = [proc EXCEPT ![p] = [@ EXCEPT !.pc = "failed", !.result = NoResult]]
          ELSE \E row \in seen :
                 proc' = [proc EXCEPT ![p] =
                    [@ EXCEPT !.pc = "done", !.result = ExecFunction(row.def, "pending")]]
    /\ UNCHANGED <<ledger, rules, now, rl, rlg, alerts, ah, bl, blg, fd>>

NextResolve ==
    \E p \in Callers :
        \/ ResolveStart(p)
        \/ ResolveCheck(p)
        \/ ResolveCreate(p)
        \/ ResolveCommit(p)
        \/ ResolveCall(p)

InitResolve ==
    /\ ledger = << >>
    /\ rules = {}
    /\ proc = [p \in Callers |-> IdleCaller]
    /\ now = 0
    /\ rl = << >>
    /\ rlg = << >>
    /\ alerts = << >>
    /\ ah = << >>
    /\ bl = << >>
    /\ blg = << >>
    /\ fd = << >>

SpecResolve == InitResolve /\ [][NextResolve]_vars

\* C17: however the resolve calls of several callers interleave, no call
\* fails, every finished call has executed the default rule of its key (so
\* two callers of one key got the same rule), and the catalog holds at most
\* one rule per key, the default one.
C17_ResolveIdempotent ==
    /\ \A p \in Callers :
         /\ proc[p].pc # "failed"
         /\ proc[p].pc = "done" =>
               proc[p].result = ExecFunction(DefaultFunction(proc[p].name), "pending")
    /\ \A p \in Callers, q \in Callers :
         (proc[p].pc = "done" /\ proc[q].pc = "done" /\ proc[p].name = proc[q].name)
            => proc[p].result = proc[q].result
    /\ \A name \in ResolveKeys :
         Cardinality({row \in rules : row.name = name /\ row.committed}) <= 1
    /\ \A row \in rules : row.def = DefaultFunction(row.name)

\* Two callers of one key both found no rule; one created it, the other's
\* creation met the first one's; both have finished.
C17_Witness ==
    \E p \in Callers, q \in Callers :
        /\ p # q /\ proc[p].name = proc[q].name
        /\ proc[p].pc = "done" /\ proc[q].pc = "done"
        /\ proc[p].created = "yes" /\ proc[q].created = "conflict"

(***************************************************************************)
(* Routing keys and rule names: call_pg_function for several keys, one     *)
(* after the other, with service and route names that contain "_".         *)
(***************************************************************************)
Lookups == 1..MaxLookups

\* Service and route names, as their "_"-separated pieces
KeyServices == { <<"mpesa">>, <<"mpesa", "ke">> }
KeyRoutes == { <<"collection">>, <<"collectionStatus">>, <<"ke", "collection">> }

RoutingKeys == {[app |-> AppId, svc |-> s, route |-> r] : s \in KeyServices, r \in KeyRoutes}

IdleLookup(key) == [pc |-> "idle", key |-> key, name |-> << >>, created |-> FALSE]

\* -- process_payment_request, lines 38-42, and call_pg_function, lines
\* 96-110: the name of the key's function; when no function of that name is
\* stored, create_default_function derives one from the name.
ResolveKey(i) ==
    /\ proc[i].pc = "idle"
    /\ \E ok \in BOOLEAN :
         LET k == proc[i].key
             name == FunctionName(k.app, k.svc, k.route)
             create == name \notin DOMAIN rules /\ ok
         IN /\ rules' = IF create
                        THEN [n \in DOMAIN rules \cup {name} |->
                                IF n = name THEN DefaultFunction(n) ELSE rules[n]]
                        ELSE rules
            /\ proc' = [proc EXCEPT ![i] =
                  [@ EXCEPT !.pc = "done", !.name = name, !.created = create]]
    /\ UNCHANGED <<ledger, now, rl, rlg, alerts, ah, bl, blg, fd>>

NextKeys == \E i \in Lookups : ResolveKey(i)

InitKeys ==
    /\ ledger = << >>
    /\ rules = << >>
    /\ proc \in {[i \in Lookups |-> IdleLookup(ks[i])] : ks \in [Lookups -> RoutingKeys]}
    /\ now = 0
    /\ rl = << >>
    /\ rlg = << >>
    /\ alerts = << >>
    /\ ah = << >>
    /\ bl = << >>
    /\ blg = << >>
    /\ fd = << >>

SpecKeys == InitKeys /\ [][NextKeys]_vars

\* C28 (as claimed): lookups of different (app_id, service, route) triples
\* use different stored rules, and the default rule provisioned for a triple
\* carries the triple's service and route and is a status rule exactly when
\* the route ends in "Status".
C28_KeyInjectiveFaithful ==
    /\ \A i \in Lookups, j \in Lookups :
          (/\ proc[i].pc = "done" /\ proc[j].pc = "done"
           /\ proc[i].name \in DOMAIN rules /\ proc[j].name \in DOMAIN rules
           /\ proc[i].key # proc[j].key)
             => proc[i].name # proc[j].name
    /\ \A i \in Lookups :
          (proc[i].pc = "done" /\ proc[i].created) =>
             /\ <<rules[proc[i].name].svc>> = proc[i].key.svc
             /\ <<rules[proc[i].name].route>> = proc[i].key.route
             /\ (rules[proc[i].name].kind = "status") <=>
                   EndsWithStatus(proc[i].key.route[Len(proc[i].key.route)])

(***************************************************************************)
(* Concurrent rate limiting: check_rate_limit run by a burst of callers    *)
(* for one key (identifier, identifier_type, endpoint) inside one window   *)
(* (the clock stands still), each in its own session, interleaved at its   *)
(* query, its first commit and its limit test.  Here rl is the rate_limits *)
(* table as a sequence of rows of the key.                                 *)
(***************************************************************************)
Burst == 1..MaxBurst

IdleBurst == [pc |-> "idle", idx |-> 0, row |-> NoRow, allowed |-> FALSE]

\* -- check_rate_limit, lines 72-83: cleanup (nothing is a day old), the
\* blocked test, then the query of the key's row; .first() of what is there.
RcLookup(p) ==
    /\ proc[p].pc = "idle"
    /\ IF \E k \in DOMAIN rl : rl[k].blocked /\ now < rl[k].until
       THEN proc' = [proc EXCEPT ![p] = [@ EXCEPT !.pc = "done", !.allowed = FALSE]]
       ELSE \E k \in IF rl = << >> THEN {0} ELSE DOMAIN rl :
              proc' = [proc EXCEPT ![p] =
                 [@ EXCEPT !.pc = "write", !.idx = k,
                           !.row = IF k = 0 THEN NoRow ELSE rl[k]]]
    /\ UNCHANGED <<ledger, rules, now, rl, rlg, alerts, ah, bl, blg, fd>>

\* -- check_rate_limit, lines 87-113: insert the row, or set request_count to
\* the loaded value plus one (the UPDATE writes the value computed in
\* Python), and commit.
RcWrite(p) ==
    /\ proc[p].pc = "write"
    /\ LET new == Touch(proc[p].row, now)
       IN IF proc[p].idx = 0
          THEN /\ rl' = Append(rl, new)
               /\ proc' = [proc EXCEPT ![p] =
                     [@ EXCEPT !.pc = "enforce", !.idx = Len(rl) + 1, !.row = new]]
          ELSE /\ rl' = [rl EXCEPT ![proc[p].idx].count = new.count,
                                   ![proc[p].idx].ws = new.ws]
               /\ proc' = [proc EXCEPT ![p] = [@ EXCEPT !.pc = "enforce", !.row = new]]
    /\ UNCHANGED <<ledger, rules, now, rlg, alerts, ah, bl, blg, fd>>

\* -- check_rate_limit, lines 116-141: the commit expired the loaded row, so
\* request_count is read again from the table; block when over the limit.
RcEnforce(p) ==
    /\ proc[p].pc = "enforce"
    /\ LET fresh == rl[proc[p].idx]
       IN /\ rl' = [rl EXCEPT ![proc[p].idx] = Enforce(fresh, now)]
          /\ proc' = [proc EXCEPT ![p] =
                [@ EXCEPT !.pc = "done", !.row = Enforce(fresh, now),
                          !.allowed = ~(fresh.count > Limit)]]
    /\ UNCHANGED <<ledger, rules, now, rlg, alerts, ah, bl, blg, fd>>

NextRateConc ==
    \E p \in Burst :
        \/ RcLookup(p)
        \/ RcWrite(p)
        \/ RcEnforce(p)

InitRateConc ==
    /\ ledger = << >>
    /\ rules = << >>
    /\ proc = [p \in Burst |-> IdleBurst]
    /\ now = 0
    /\ rl = << >>
    /\ rlg = << >>
    /\ alerts = << >>
    /\ ah = << >>
    /\ bl = << >>
    /\ blg = << >>
    /\ fd = << >>

SpecRateConc == InitRateConc /\ [][NextRateConc]_vars

\* C18 (as claimed): under any interleaving of the calls of a burst for one
\* key in one window, at most Limit calls are allowed.
C18_AtomicIncrements ==
    Cardinality({p \in Burst : proc[p].pc = "done" /\ proc[p].allowed}) <= Limit

\* C23 (as claimed): whatever the interleaving of the calls, the table holds
\* at most one row of the key.
C23_OneRowPerKey ==
    Len(rl) <= 1

(***************************************************************************)
(* Concurrent alert evaluation: check_rule run by several runners on one   *)
(* breaching (rule, client) pair, each in its own session, interleaved     *)
(* between the existing-alert query and create_alert.                      *)
(***************************************************************************)
Runners == 1..MaxRunners

RaceRule == AlertRules[2]           \* the rule of client 1

RaceMetric == 90                    \* inactivity hours of the client: a breach

IdleRunner == [pc |-> "idle", existing |-> FALSE, made |-> FALSE, fault |-> FALSE]

\* -- check_rule, lines 58-73: the metric breaches; query an existing Alert
RunnerCheck(p) ==
    /\ proc[p].pc = "idle"
    /\ EvaluateThreshold(RaceMetric, RaceRule.threshold, RaceRule.op)
    /\ proc' = [proc EXCEPT ![p] =
          [@ EXCEPT !.pc = "create",
                    !.existing = ExistingAlert(alerts, RaceRule, RaceRule.client_id, now)]]
    /\ UNCHANGED <<ledger, rules, now, rl, rlg, alerts, ah, bl, blg, fd>>

\* -- check_rule, lines 75-81: create_alert unless the query found one; a
\* commit that fails is rolled back and create_alert gives None
RunnerCreate(p) ==
    /\ proc[p].pc = "create"
    /\ \E ok \in BOOLEAN :
         LET make == ~proc[p].existing /\ ok
         IN /\ alerts' = IF make
                         THEN Append(alerts, NewAlert(RaceRule, RaceRule.client_id,
                                                      RaceMetric, now))
                         ELSE alerts
            /\ proc' = [proc EXCEPT ![p] =
                  [@ EXCEPT !.pc = "done", !.made = make,
                            !.fault = ~proc[p].existing /\ ~ok]]
    /\ UNCHANGED <<ledger, rules, now, rl, rlg, ah, bl, blg, fd>>

NextAlertConc ==
    \E p \in Runners :
        \/ RunnerCheck(p)
        \/ RunnerCreate(p)

InitAlertConc ==
    /\ ledger = << >>
    /\ rules = << >>
    /\ proc = [p \in Runners |-> IdleRunner]
    /\ now = 0
    /\ rl = << >>
    /\ rlg = << >>
    /\ alerts = << >>
    /\ ah = << >>
    /\ bl = << >>
    /\ blg = << >>
    /\ fd = << >>

SpecAlertConc == InitAlertConc /\ [][NextAlertConc]_vars

\* C19 (as claimed): when all concurrent runs on the breaching pair have
\* ended, at most two active Alerts of the pair exist, and at least one if
\* no commit failed.
C19_AtMostOneExtraAlert ==
    (\A p \in Runners : proc[p].pc = "done") =>
        /\ ActiveCount(RaceRule.alert_type, RaceRule.client_id) <= 2
        /\ (\A p \in Runners : ~proc[p].fault) =>
               ActiveCount(RaceRule.alert_type, RaceRule.client_id) >= 1

(***************************************************************************)
(* check_rate_limit with storage operations that can fail.  Each call      *)
(* draws the storage operation that fails (or none); the clock counts      *)
(* half-hours as in SpecRate.                                              *)
(***************************************************************************)
\* The storage operations of one call, in the order they are made:
\*   cleanup     _cleanup_rate_limits: delete / commit          (395-396)
\*   blockcheck  _is_identifier_blocked: query                  (369-373)
\*   unblock     _is_identifier_blocked: commit of the unblock  (382)
\*   query       check_rate_limit: query of the row             (79-83)
\*   commit1     check_rate_limit: commit of the count          (113)
\*   commit2     check_rate_limit: commit of the block          (120)
\*   event       log_security_event: add / commit               (123-137)
StorageFaults == {"none", "cleanup", "blockcheck", "unblock", "query",
                  "commit1", "commit2", "event"}

NoFaultCall == [ep |-> "none", t |-> 0, failed |-> "none", allowed |-> FALSE,
                rolledBack |-> FALSE]

\* -- check_rate_limit(identifier, "ip", ep, Limit, Window), the whole call,
\* with the storage operation `fault` failing if the call reaches it.
\* _cleanup_rate_limits catches its own failure and rolls back;
\* _is_identifier_blocked catches its own failure and returns False without
\* a rollback, after which the session either still works or raises on the
\* next statement (usable); log_security_event catches its own failure; any
\* other failure reaches the except of lines 143-146.
CheckRateLimitFault(ep) ==
    \E fault \in StorageFaults :
    \E usable \in IF fault \in {"blockcheck", "unblock"} THEN BOOLEAN ELSE {TRUE} :
        LET t == now
            rows1 == IF fault = "cleanup" THEN rl ELSE CleanupRateLimits(rl, t)
            B == BlockedRows(rows1)
        IN \E b \in IF B = {} THEN {"none"} ELSE B :
            LET hit == fault # "blockcheck" /\ b # "none" /\ rows1[b].until # NoTime
                stillBlocked == hit /\ t < rows1[b].until
                unblocks == hit /\ ~stillBlocked
                rows2 == IF unblocks /\ fault # "unblock"
                         THEN [rows1 EXCEPT ![b].blocked = FALSE, ![b].until = NoTime]
                         ELSE rows1
                swallowed == fault = "blockcheck" \/ (fault = "unblock" /\ unblocks)
                raised == \/ swallowed /\ ~usable
                          \/ fault \in {"query", "commit1"}
                touched == Touch(rows2[ep], t)
                over == touched.count > Limit
                call == [ep |-> ep, t |-> t, failed |-> "none", allowed |-> FALSE,
                         rolledBack |-> FALSE]
            IN IF stillBlocked
               THEN /\ rl' = rows1
                    /\ rlg' = [last |-> [call EXCEPT
                          !.failed = IF fault = "cleanup" THEN fault ELSE "none",
                          !.rolledBack = fault = "cleanup"]]
               ELSE IF raised
               THEN /\ rl' = rows2
                    /\ rlg' = [last |-> [call EXCEPT !.failed = fault,
                                                     !.allowed = TRUE,
                                                     !.rolledBack = TRUE]]
               ELSE IF over /\ fault = "commit2"
               THEN /\ rl' = [rows2 EXCEPT ![ep] = touched]
                    /\ rlg' = [last |-> [call EXCEPT !.failed = fault,
                                                     !.allowed = TRUE,
                                                     !.rolledBack = TRUE]]
               ELSE /\ rl' = [rows2 EXCEPT ![ep] = Enforce(touched, t)]
                    /\ rlg' = [last |-> [call EXCEPT
                          !.failed = IF \/ fault = "cleanup"
                                        \/ swallowed
                                        \/ fault = "event" /\ over
                                     THEN fault ELSE "none",
                          !.allowed = ~over,
                          !.rolledBack = fault = "cleanup"]]

\* The stored count is capped: no call is made on a row already MaxOver
\* over the limit.
CheckRateLimitFaultAny ==
    /\ \E ep \in Endpoints :
         /\ rl[ep].count <= Limit + MaxOver
         /\ CheckRateLimitFault(ep)
    /\ UNCHANGED <<ledger, rules, proc, now, alerts, ah, bl, blg, fd>>

NextRateFault == CheckRateLimitFaultAny \/ TickRate

InitRateFault ==
    /\ ledger = << >>
    /\ rules = << >>
    /\ proc = << >>
    /\ now = 0
    /\ rl = [k \in Endpoints |-> NoRow]
    /\ rlg = [last |-> NoFaultCall]
    /\ alerts = << >>
    /\ ah = << >>
    /\ bl = << >>
    /\ blg = << >>
    /\ fd = << >>

SpecRateFault == InitRateFault /\ [][NextRateFault]_vars

\* C20 (as claimed): a call of check_rate_limit in which a storage read or
\* write failed returns allowed = true.
C20_FailsOpen ==
    rlg.last.failed # "none" => rlg.last.allowed

====
